---- MODULE Spec2Model ----
(***************************************************************************)
(* A model of src/scraper.py (LeHavreEventsScraper): the expiration        *)
(* filter, the address validity predicate, the merge engine, the record    *)
(* overlay, the chronological sort and the orchestration of a run          *)
(* (scrape_events and main).                                               *)
(*                                                                         *)
(* Text whose characters the code inspects (the date field) is a sequence  *)
(* of one-character strings.  Ids and titles are atomic strings; the only  *)
(* operation the code applies to them is str.lower(), modelled by Lower.   *)
(* A point in time is a number of ticks, TicksPerDay ticks to a day; a     *)
(* parsed date is midnight (tick 0) of its day.                            *)
(***************************************************************************)
EXTENDS Integers, Sequences, FiniteSets, TLC

VARIABLES
    op,        \* pure-function harness: the function applied, "none" before
    args,      \* its arguments
    result,    \* its result
    pc,        \* position of the run (main / scrape_events)
    run        \* the run's state: a record of the locals and fields in use

vars == <<op, args, result, pc, run>>

-----------------------------------------------------------------------------
(* Bounds of the model *)

TicksPerDay == 2
MaxPersisted == 2
MaxFresh == 2
MaxPad == 201
MaxSort == 3
MaxStored == 2
MaxListing == 2

-----------------------------------------------------------------------------
(* Characters, int() and datetime()                                         *)

Digits == {"0", "1", "2", "3", "4", "5", "6", "7", "8", "9"}

DigitVal(c) ==
    CASE c = "0" -> 0 [] c = "1" -> 1 [] c = "2" -> 2 [] c = "3" -> 3
      [] c = "4" -> 4 [] c = "5" -> 5 [] c = "6" -> 6 [] c = "7" -> 7
      [] c = "8" -> 8 [] c = "9" -> 9

\* str.split('/'): the pieces between the separators, empty pieces included
RECURSIVE SplitAcc(_, _, _, _)
SplitAcc(s, sep, cur, acc) ==
    IF s = <<>> THEN Append(acc, cur)
    ELSE IF Head(s) = sep THEN SplitAcc(Tail(s), sep, <<>>, Append(acc, cur))
    ELSE SplitAcc(Tail(s), sep, Append(cur, Head(s)), acc)

Split(s, sep) == SplitAcc(s, sep, <<>>, <<>>)

Contains(s, c) == \E i \in 1..Len(s) : s[i] = c

RECURSIVE StripLeft(_)
StripLeft(s) == IF s # <<>> /\ Head(s) = " " THEN StripLeft(Tail(s)) ELSE s

RECURSIVE StripRight(_)
StripRight(s) ==
    IF s # <<>> /\ s[Len(s)] = " " THEN StripRight(SubSeq(s, 1, Len(s) - 1)) ELSE s

RECURSIVE DigitsValue(_, _)
DigitsValue(s, acc) ==
    IF s = <<>> THEN acc ELSE DigitsValue(Tail(s), acc * 10 + DigitVal(Head(s)))

AllDigits(s) == s # <<>> /\ \A i \in 1..Len(s) : s[i] \in Digits

\* int(text): surrounding blanks stripped, an optional sign, then decimal
\* digits; anything else raises ValueError, modelled as [ok |-> FALSE].
PyInt(text) ==
    LET t == StripRight(StripLeft(text))
        signed == t # <<>> /\ Head(t) \in {"+", "-"}
        body == IF signed THEN Tail(t) ELSE t
    IN  IF AllDigits(body)
        THEN [ok |-> TRUE,
              val |-> IF signed /\ Head(t) = "-"
                      THEN 0 - DigitsValue(body, 0) ELSE DigitsValue(body, 0)]
        ELSE [ok |-> FALSE, val |-> 0]

IsLeap(y) == (y % 4 = 0) /\ ((y % 100 # 0) \/ (y % 400 = 0))

DaysInMonth(y, m) ==
    IF m = 2 THEN (IF IsLeap(y) THEN 29 ELSE 28)
    ELSE IF m \in {4, 6, 9, 11} THEN 30 ELSE 31

\* datetime(year, month, day) raises ValueError outside these ranges
ValidYMD(y, m, d) ==
    /\ y >= 1 /\ y <= 9999
    /\ m >= 1 /\ m <= 12
    /\ d >= 1 /\ d <= DaysInMonth(y, m)

RECURSIVE DaysBeforeMonth(_, _)
DaysBeforeMonth(y, m) ==
    IF m <= 1 THEN 0 ELSE DaysBeforeMonth(y, m - 1) + DaysInMonth(y, m - 1)

\* the day number of a date (proleptic Gregorian ordinal, 01/01/0001 = 1)
Ordinal(y, m, d) ==
    (y - 1) * 365 + ((y - 1) \div 4) - ((y - 1) \div 100) + ((y - 1) \div 400)
    + DaysBeforeMonth(y, m) + d

\* a datetime as a number of ticks
Ticks(ord, tod) == ord * TicksPerDay + tod

\* dict.get(key, ''): the value, or '' (the empty text) when the key is absent
GetText(event, key) == IF key \in DOMAIN event THEN event[key] ELSE <<>>

\* the three parts of a date text parsed as the code parses them:
\* [ok |-> FALSE] where int() or datetime() raises
ParseParts(dayPart, monthPart, yearPart) ==
    LET d == PyInt(dayPart)
        m == PyInt(monthPart)
        y == PyInt(yearPart)
    IN  IF d.ok /\ m.ok /\ y.ok /\ ValidYMD(y.val, m.val, d.val)
        THEN [ok |-> TRUE, ticks |-> Ticks(Ordinal(y.val, m.val, d.val), 0)]
        ELSE [ok |-> FALSE, ticks |-> 0]

-----------------------------------------------------------------------------
(* _is_event_expired                                                        *)

\* the comparison of _is_event_expired with the timedelta forgotten
ExpiredCompare_NoDelta(event_date, now) == event_date < now

\* event_date < (datetime.now() - timedelta(days=1))
ExpiredCompare(event_date, now) == event_date < now - TicksPerDay

\* _is_event_expired(event_data) with the clock reading `now` (ticks)
IsEventExpired(event_data, now) ==
    LET date_str == GetText(event_data, "date")
    IN  IF date_str = <<>> THEN FALSE
        ELSE IF Contains(date_str, "/")
        THEN LET parts == Split(date_str, "/")
             IN  IF Len(parts) = 3
                 THEN LET p == ParseParts(parts[1], parts[2], parts[3])
                      IN  IF p.ok THEN ExpiredCompare(p.ticks, now)
                          ELSE FALSE      \* except Exception: return False
                 ELSE FALSE
        ELSE FALSE

\* load_existing_events without the expiration test
FilterExpired_KeepAll(existing_events, now) == existing_events

\* the expiration filter of load_existing_events: the records kept, in order
FilterExpired(existing_events, now) ==
    SelectSeq(existing_events, LAMBDA event : ~IsEventExpired(event, now))

-----------------------------------------------------------------------------
(* The run's variables while a pure function is exercised, and the harness  *)
(* variables while a run is exercised                                       *)

NoRun == [none |-> TRUE]
RunIdle == pc = "off" /\ run = NoRun
FnIdle == op = "none" /\ args = <<>> /\ result = <<>>

-----------------------------------------------------------------------------
(* SpecExpire: _is_event_expired and the filter of load_existing_events on  *)
(* date texts built from day, month and year parts                          *)

DayParts ==
    {<<"1", "3">>, <<"1", "4">>, <<"1", "5">>, <<"1", "6">>, <<"2", "9">>,
     <<"3", "1">>, <<"7">>, <<"0", "0">>, <<"3", "2">>, <<"a", "b">>,
     <<" ", "1", "3">>, <<"-", "1">>, <<>>}

MonthParts ==
    {<<"0", "6">>, <<"0", "2">>, <<"0", "4">>, <<"6">>, <<"1", "3">>, <<"x">>}

YearParts ==
    {<<"2", "0", "2", "5">>, <<"2", "0", "2", "4">>, <<"2", "0", "2", "0">>,
     <<"2", "0", "2", "6">>, <<"2", "0">>, <<"0", "0", "0", "0">>,
     <<"0", "0", "2", "0">>, <<"1", "0", "0", "0", "0">>, <<"y">>}

Separators == {"/", "-"}

DateTexts ==
    {d \o <<s>> \o m \o <<s>> \o y :
        d \in DayParts, m \in MonthParts, y \in YearParts, s \in Separators}
    \cup {d \o <<"/">> \o m : d \in DayParts, m \in MonthParts}
    \cup {d \o <<"/">> \o m \o <<"/">> \o y \o <<"/">> \o d :
            d \in {<<"1", "3">>}, m \in {<<"0", "6">>}, y \in YearParts}
    \cup {<<>>, <<"/">>, <<"/", "/">>, <<"1", "3">>}

\* the records given to the filter: a date text, or no date key at all
ExpireEvents ==
    {[title |-> "t", date |-> s] : s \in DateTexts} \cup {[title |-> "t"]}

\* the clock readings: any time of day on 15/06/2025
Today == Ordinal(2025, 6, 15)
Nows == {Ticks(Today, tod) : tod \in 0..(TicksPerDay - 1)}

InitExpire ==
    /\ op = "none"
    /\ args \in {[event |-> e, now |-> n] : e \in ExpireEvents, n \in Nows}
    /\ result = <<>>
    /\ RunIdle

CallIsEventExpired ==
    /\ op = "none"
    /\ op' = "_is_event_expired"
    /\ result' = IsEventExpired(args.event, args.now)
    /\ UNCHANGED <<args, pc, run>>

CallLoadExisting ==
    /\ op = "none"
    /\ op' = "load_existing_events"
    /\ result' = FilterExpired(<<args.event>>, args.now)
    /\ UNCHANGED <<args, pc, run>>

NextExpire == CallIsEventExpired \/ CallLoadExisting

SpecExpire == InitExpire /\ [][NextExpire]_vars

\* the shape "DD/MM/YYYY with a numeric day, month and 4-digit year" naming
\* a calendar date: three parts of digits only, one or two for the day and
\* the month, four for the year, and the date exists
ShapedDate(s) ==
    LET parts == Split(s, "/")
    IN  /\ Len(parts) = 3
        /\ AllDigits(parts[1]) /\ Len(parts[1]) \in {1, 2}
        /\ AllDigits(parts[2]) /\ Len(parts[2]) \in {1, 2}
        /\ AllDigits(parts[3]) /\ Len(parts[3]) = 4
        /\ ValidYMD(DigitsValue(parts[3], 0), DigitsValue(parts[2], 0),
                    DigitsValue(parts[1], 0))

\* the day number of a shaped date
ShapedOrdinal(s) ==
    LET parts == Split(s, "/")
    IN  Ordinal(DigitsValue(parts[3], 0), DigitsValue(parts[2], 0),
                DigitsValue(parts[1], 0))

NowDay == args.now \div TicksPerDay
NowTod == args.now % TicksPerDay

\* C1: for a record whose date is a valid DD/MM/YYYY calendar date D,
\* _is_event_expired is true exactly when midnight of D is strictly earlier
\* than the current time minus one day: D is two or more days before today,
\* or D is yesterday and the clock is past midnight; it is false for every
\* D within a day of now or later.
C1_ExpiredIffMoreThanOneDayPast ==
    (op = "_is_event_expired" /\ ShapedDate(GetText(args.event, "date")))
        => LET ord == ShapedOrdinal(GetText(args.event, "date"))
           IN  result = (\/ ord + 1 < NowDay
                         \/ (ord + 1 = NowDay /\ NowTod > 0))

C1_Witness ==
    /\ op = "_is_event_expired"
    /\ ShapedDate(GetText(args.event, "date"))
    /\ ShapedOrdinal(GetText(args.event, "date")) + 1 = NowDay
    /\ NowTod > 0
    /\ result = TRUE

\* C2: for a record whose date is empty, absent or not of the shape
\* DD/MM/YYYY (numeric day and month, 4-digit year, in range),
\* _is_event_expired returns false and load_existing_events keeps the record.
C2_MalformedNeverExpired ==
    /\ (op = "_is_event_expired" /\ ~ShapedDate(GetText(args.event, "date")))
          => result = FALSE
    /\ (op = "load_existing_events" /\ ~ShapedDate(GetText(args.event, "date")))
          => result = <<args.event>>

-----------------------------------------------------------------------------
(* _is_valid_address                                                        *)

UpperLetters ==
    <<"A", "B", "C", "D", "E", "F", "G", "H", "I", "J", "K", "L", "M", "N",
      "O", "P", "Q", "R", "S", "T", "U", "V", "W", "X", "Y", "Z", "É">>

LowerLetters ==
    <<"a", "b", "c", "d", "e", "f", "g", "h", "i", "j", "k", "l", "m", "n",
      "o", "p", "q", "r", "s", "t", "u", "v", "w", "x", "y", "z", "é">>

LowerChar(c) ==
    IF \E k \in DOMAIN UpperLetters : UpperLetters[k] = c
    THEN LowerLetters[CHOOSE k \in DOMAIN UpperLetters : UpperLetters[k] = c]
    ELSE c

\* str.lower() of a text
LowerText(s) == [i \in 1..Len(s) |-> LowerChar(s[i])]

\* w in s: w occurs in s as a run of consecutive characters
HasSub(s, w) ==
    \E i \in 1..(Len(s) - Len(w) + 1) : \A j \in 1..Len(w) : s[i + j - 1] = w[j]

street_indicators ==
    {<<"r", "u", "e">>, <<"a", "v", "e", "n", "u", "e">>,
     <<"b", "o", "u", "l", "e", "v", "a", "r", "d">>, <<"p", "l", "a", "c", "e">>,
     <<"r", "o", "u", "t", "e">>, <<"a", "l", "l", "é", "e">>,
     <<"i", "m", "p", "a", "s", "s", "e">>, <<"c", "h", "e", "m", "i", "n">>,
     <<"s", "q", "u", "a", "r", "e">>}

cities ==
    {<<"l", "e", " ", "h", "a", "v", "r", "e">>, <<"h", "a", "v", "r", "e">>,
     <<"e", "t", "r", "e", "t", "a", "t">>,
     <<"m", "o", "n", "t", "i", "v", "i", "l", "l", "i", "e", "r", "s">>,
     <<"g", "o", "n", "f", "r", "e", "v", "i", "l", "l", "e">>,
     <<"h", "a", "r", "f", "l", "e", "u", "r">>}

\* \w of the regular expressions: letters, digits and the underscore
WordChar(c) == c \notin {" ", ".", "-", ",", "/", ":"}

\* re.search(r'\b\d{5}\b', text) finds a match
HasPostal(text) ==
    \E i \in 1..(Len(text) - 4) :
        /\ \A j \in 0..4 : text[i + j] \in Digits
        /\ (i = 1 \/ ~WordChar(text[i - 1]))
        /\ (i + 5 > Len(text) \/ ~WordChar(text[i + 5]))

\* _is_valid_address with the lower length test written <= 10
IsValidAddress_LenOffByOne(text) ==
    IF text = <<>> \/ Len(text) <= 10 THEN FALSE
    ELSE LET text_lower == LowerText(text)
             has_street == \E ind \in street_indicators : HasSub(text_lower, ind)
             has_postal == HasPostal(text)
             has_city == \E city \in cities : HasSub(text_lower, city)
         IN  (has_street \/ has_postal) /\ (has_postal \/ has_city)
                /\ Len(text) < 200

\* _is_valid_address(text): the truth value of what it returns
IsValidAddress(text) ==
    IF text = <<>> \/ Len(text) < 10 THEN FALSE
    ELSE LET text_lower == LowerText(text)
             has_street == \E ind \in street_indicators : HasSub(text_lower, ind)
             has_postal == HasPostal(text)
             has_city == \E city \in cities : HasSub(text_lower, city)
         IN  (has_street \/ has_postal) /\ (has_postal \/ has_city)
                /\ Len(text) < 200

(* SpecAddress: _is_valid_address on texts made of one or two words and a   *)
(* run of 0..MaxPad dots                                                    *)

AddressWords ==
    {<<"r", "u", "e">>, <<"R", "U", "E">>, <<"p", "a", "r", "u", "e">>,
     <<"7", "6", "6", "0", "0">>, <<"7", "6", "6", "0", "0", "0">>,
     <<"x", "7", "6", "6", "0", "0">>, <<"H", "A", "V", "R", "E">>,
     <<"h", "a", "v", "r", "e">>, <<"a", "b", "c">>}

AddressCores ==
    {<<>>} \cup AddressWords
    \cup {w1 \o <<" ">> \o w2 : w1 \in AddressWords, w2 \in AddressWords}

Dots(n) == [i \in 1..n |-> "."]

InitAddress ==
    /\ op = "none"
    /\ args \in {[text |-> core \o Dots(n)] : core \in AddressCores, n \in 0..MaxPad}
    /\ result = <<>>
    /\ RunIdle

CallIsValidAddress ==
    /\ op = "none"
    /\ op' = "_is_valid_address"
    /\ result' = IsValidAddress(args.text)
    /\ UNCHANGED <<args, pc, run>>

NextAddress == CallIsValidAddress

SpecAddress == InitAddress /\ [][NextAddress]_vars

\* the three components the claim names, read off the text
TextHasStreet == \E ind \in street_indicators : HasSub(LowerText(args.text), ind)
TextHasPostal == HasPostal(args.text)
TextHasCity == \E city \in cities : HasSub(LowerText(args.text), city)

\* C7 as stated: _is_valid_address is true iff the length is strictly
\* between 10 and 200, and (street token or postal code), and (postal code
\* or city name).
C7_StrictlyBetween10And200 ==
    op = "_is_valid_address"
        => (result <=> /\ Len(args.text) > 10 /\ Len(args.text) < 200
                       /\ (TextHasStreet \/ TextHasPostal)
                       /\ (TextHasPostal \/ TextHasCity))

\* C7 amended: _is_valid_address is true iff the length is at least 10 and
\* strictly less than 200, and (street token or postal code), and (postal
\* code or city name).
C7_AtLeast10Below200 ==
    op = "_is_valid_address"
        => (result <=> /\ Len(args.text) >= 10 /\ Len(args.text) < 200
                       /\ (TextHasStreet \/ TextHasPostal)
                       /\ (TextHasPostal \/ TextHasCity))

\* a text of exactly 10 characters that is accepted
C7_Witness ==
    /\ op = "_is_valid_address"
    /\ Len(args.text) = 10
    /\ result = TRUE

-----------------------------------------------------------------------------
(* merge_events                                                             *)

\* dict.get(key, '') for the id and the title, which are atomic strings
GetStr(event, key) == IF key \in DOMAIN event THEN event[key] ELSE ""

\* str.lower() on the ids and titles in use
Lower(t) ==
    CASE t = "X" -> "x" [] t = "Y" -> "y" [] t = "Z" -> "z" [] OTHER -> t

Range(seq) == {seq[i] : i \in 1..Len(seq)}

\* {event.get('id', '') for event in existing_events if event.get('id')}
ExistingIds(existing_events) ==
    {GetStr(e, "id") : e \in Range(existing_events)} \ {""}

\* {event.get('title', '').lower() for event in existing_events}
ExistingTitles(existing_events) ==
    {Lower(GetStr(e, "title")) : e \in Range(existing_events)}

\* the duplicate test by id alone (the elif on the title left out)
IsDuplicate_IdOnly(new_event, existing_ids, existing_titles) ==
    LET event_id == GetStr(new_event, "id")
    IN  event_id # "" /\ event_id \in existing_ids

\* the two duplicate tests of the loop body
IsDuplicate(new_event, existing_ids, existing_titles) ==
    LET event_id == GetStr(new_event, "id")
        event_title == Lower(GetStr(new_event, "title"))
    IN  \/ (event_id # "" /\ event_id \in existing_ids)
        \/ event_title \in existing_titles

\* the loop of merge_events without the two set.add calls
RECURSIVE MergeLoop_NoAdd(_, _, _, _)
MergeLoop_NoAdd(new_events, existing_ids, existing_titles, merged_events) ==
    IF new_events = <<>> THEN merged_events
    ELSE LET new_event == Head(new_events)
         IN  IF IsDuplicate(new_event, existing_ids, existing_titles)
             THEN MergeLoop_NoAdd(Tail(new_events), existing_ids,
                                  existing_titles, merged_events)
             ELSE MergeLoop_NoAdd(Tail(new_events), existing_ids,
                                  existing_titles,
                                  Append(merged_events, new_event))

\* for new_event in new_events: skip a duplicate, else append and record
\* its id and lowercased title
RECURSIVE MergeLoop(_, _, _, _)
MergeLoop(new_events, existing_ids, existing_titles, merged_events) ==
    IF new_events = <<>> THEN merged_events
    ELSE LET new_event == Head(new_events)
         IN  IF IsDuplicate(new_event, existing_ids, existing_titles)
             THEN MergeLoop(Tail(new_events), existing_ids, existing_titles,
                            merged_events)
             ELSE MergeLoop(Tail(new_events),
                            existing_ids \cup {GetStr(new_event, "id")},
                            existing_titles
                                \cup {Lower(GetStr(new_event, "title"))},
                            Append(merged_events, new_event))

\* merge_events appending to existing_events itself (no .copy())
MergeEvents_NoCopy(existing_events, new_events) ==
    LET merged == MergeLoop(new_events, ExistingIds(existing_events),
                            ExistingTitles(existing_events), existing_events)
    IN  [merged_events |-> merged, existing_events |-> merged]

\* merge_events(existing_events, new_events): the list returned, and the
\* caller's existing_events list after the call (merged_events is a copy)
MergeEvents(existing_events, new_events) ==
    LET merged == MergeLoop(new_events, ExistingIds(existing_events),
                            ExistingTitles(existing_events), existing_events)
    IN  [merged_events |-> merged, existing_events |-> existing_events]

(* SpecMerge: merge_events on up to MaxPersisted persisted and MaxFresh     *)
(* fresh records; n numbers the records of a list, as each is its own dict  *)

MergeBase ==
    {[id |-> "", title |-> "x"], [id |-> "", title |-> "y"],
     [id |-> "A1", title |-> "x"], [id |-> "A1", title |-> "y"],
     [id |-> "B2", title |-> "X"], [id |-> "B2", title |-> "y"],
     [id |-> "A1"]}

SeqsUpTo(S, n) == UNION {[1..k -> S] : k \in 0..n}

\* the record b as the n-th dict of the list src
Tagged(b, src, n) ==
    [k \in DOMAIN b \cup {"src", "n"} |->
        IF k = "src" THEN src ELSE IF k = "n" THEN n ELSE b[k]]

TagAll(bases, src) == [i \in 1..Len(bases) |-> Tagged(bases[i], src, i)]

InitMerge ==
    /\ op = "none"
    /\ args \in {[existing_events |-> TagAll(p, "persisted"),
                  new_events |-> TagAll(f, "fresh")] :
                    p \in SeqsUpTo(MergeBase, MaxPersisted),
                    f \in SeqsUpTo(MergeBase, MaxFresh)}
    /\ result = <<>>
    /\ RunIdle

CallMergeEvents ==
    /\ op = "none"
    /\ op' = "merge_events"
    /\ result' = MergeEvents(args.existing_events, args.new_events)
    /\ UNCHANGED <<args, pc, run>>

\* merge_events(S, S): the same list as persisted and as fresh
CallMergeEventsSelf ==
    /\ op = "none"
    /\ op' = "merge_events_self"
    /\ result' = MergeEvents(args.existing_events, args.existing_events)
    /\ UNCHANGED <<args, pc, run>>

NextMerge == CallMergeEvents \/ CallMergeEventsSelf

SpecMerge == InitMerge /\ [][NextMerge]_vars

\* two records share a key: the same non-empty id, or the same lowercased title
ShareKey(a, b) ==
    \/ (GetStr(a, "id") # "" /\ GetStr(a, "id") = GetStr(b, "id"))
    \/ Lower(GetStr(a, "title")) = Lower(GetStr(b, "title"))

Kept(e) == e \in Range(result.merged_events)

\* a kept fresh record shares no key with a persisted record nor with an
\* earlier fresh record that was kept
KeptOnlyIfNew ==
    \A j \in 1..Len(args.new_events) :
        Kept(args.new_events[j]) =>
            /\ \A i \in 1..Len(args.existing_events) :
                   ~ShareKey(args.existing_events[i], args.new_events[j])
            /\ \A i \in 1..(j - 1) :
                   Kept(args.new_events[i])
                       => ~ShareKey(args.new_events[i], args.new_events[j])

\* C3 as stated: a fresh record is appended only if it shares no key with a
\* persisted or an earlier-accepted fresh record, and of two fresh records
\* sharing either key only the first encountered is kept (the later never).
C3_OnlyFirstOfSharingPairKept ==
    op = "merge_events"
        => /\ KeptOnlyIfNew
           /\ \A i, j \in 1..Len(args.new_events) :
                  (i < j /\ ShareKey(args.new_events[i], args.new_events[j]))
                      => ~Kept(args.new_events[j])

\* C3 amended: a fresh record is appended only if it shares no key with a
\* persisted or an earlier-accepted fresh record; of two fresh records
\* sharing either key at most one is kept, and the later one is kept only
\* when the earlier one was itself skipped as a duplicate.
C3_AtMostOneOfSharingPairKept ==
    op = "merge_events"
        => /\ KeptOnlyIfNew
           /\ \A i, j \in 1..Len(args.new_events) :
                  (i < j /\ ShareKey(args.new_events[i], args.new_events[j])
                     /\ Kept(args.new_events[j]))
                      => /\ ~Kept(args.new_events[i])
                         /\ \/ \E k \in 1..Len(args.existing_events) :
                                   ShareKey(args.existing_events[k],
                                            args.new_events[i])
                            \/ \E h \in 1..(i - 1) :
                                   /\ Kept(args.new_events[h])
                                   /\ ShareKey(args.new_events[h],
                                               args.new_events[i])

\* within-batch deduplication happened: the first of two fresh records
\* sharing a key was appended and the second skipped
C3_Witness ==
    /\ op = "merge_events"
    /\ Len(args.new_events) >= 2
    /\ ShareKey(args.new_events[1], args.new_events[2])
    /\ Kept(args.new_events[1])
    /\ ~Kept(args.new_events[2])
    /\ \A i \in 1..Len(args.existing_events) :
           ~ShareKey(args.existing_events[i], args.new_events[2])

\* C4: merge_events(S, S) returns exactly S: same records, order and length.
C4_MergeIdempotent ==
    op = "merge_events_self" => result.merged_events = args.existing_events

C4_Witness ==
    /\ op = "merge_events_self"
    /\ Len(args.existing_events) >= 2
    /\ \E i \in 1..Len(args.existing_events) :
           GetStr(args.existing_events[i], "id") = ""
    /\ result.merged_events = args.existing_events

\* C5: the result of merge_events(P, F) is P, unmodified and in order,
\* followed by accepted fresh records in the order they occur in F; the
\* list P itself is not mutated.
C5_PersistedPrefixFreshInOrder ==
    op = "merge_events"
        => LET m == result.merged_events
               np == Len(args.existing_events)
           IN  /\ Len(m) >= np
               /\ SubSeq(m, 1, np) = args.existing_events
               /\ \A k \in (np + 1)..Len(m) :
                      m[k] \in Range(args.new_events)
               /\ \A k, l \in (np + 1)..Len(m) : k < l => m[k].n < m[l].n
               /\ result.existing_events = args.existing_events

C5_Witness ==
    /\ op = "merge_events"
    /\ Len(args.existing_events) >= 1
    /\ Len(result.merged_events) >= Len(args.existing_events) + 2

-----------------------------------------------------------------------------
(* The sort at the end of scrape_events                                     *)

SentinelDays == 365

\* get_event_date(event) with the clock reading `now`: the parsed date, or
\* now + 365 days when the date is empty or parsing raises
GetEventDate(event, now) ==
    LET date_str == GetText(event, "date")
        parts == Split(date_str, "/")
        p == IF date_str # <<>> /\ Contains(date_str, "/") /\ Len(parts) = 3
             THEN ParseParts(parts[1], parts[2], parts[3])
             ELSE [ok |-> FALSE, ticks |-> 0]
    IN  IF p.ok THEN p.ticks ELSE now + SentinelDays * TicksPerDay

\* one step of a stable sort: e goes after every element whose key is not
\* greater than its own
RECURSIVE InsertByDate(_, _, _)
InsertByDate(sorted, e, now) ==
    IF sorted = <<>> THEN <<e>>
    ELSE IF GetEventDate(Head(sorted), now) <= GetEventDate(e, now)
         THEN <<Head(sorted)>> \o InsertByDate(Tail(sorted), e, now)
         ELSE <<e>> \o sorted

RECURSIVE SortLoop(_, _, _)
SortLoop(todo, sorted, now) ==
    IF todo = <<>> THEN sorted
    ELSE SortLoop(Tail(todo), InsertByDate(sorted, Head(todo), now), now)

\* all_events.sort(key=get_event_date): stable, ascending by key
SortByDate(all_events, now) == SortLoop(all_events, <<>>, now)

(* SpecSort: the sort on lists of up to MaxSort records                     *)

SortDates ==
    {<<>>,
     <<"x">>,
     <<"0", "1", "/", "0", "1", "/", "2", "0", "2", "5">>,
     <<"1", "5", "/", "0", "6", "/", "2", "0", "2", "5">>,
     <<"2", "0", "/", "0", "2", "/", "2", "0", "2", "6">>,
     <<"0", "1", "/", "0", "1", "/", "2", "0", "9", "9">>}

SortBase == {[date |-> dt] : dt \in SortDates} \cup {[title |-> "t"]}

InitSort ==
    /\ op = "none"
    /\ args \in {[all_events |-> TagAll(l, "merged"), now |-> n] :
                    l \in SeqsUpTo(SortBase, MaxSort), n \in Nows}
    /\ result = <<>>
    /\ RunIdle

CallSort ==
    /\ op = "none"
    /\ op' = "sort"
    /\ result' = SortByDate(args.all_events, args.now)
    /\ UNCHANGED <<args, pc, run>>

NextSort == CallSort

SpecSort == InitSort /\ [][NextSort]_vars

\* the date of a record parses as the code parses it
Parsable(event) ==
    LET date_str == GetText(event, "date")
        parts == Split(date_str, "/")
    IN  /\ date_str # <<>>
        /\ Len(parts) = 3
        /\ ParseParts(parts[1], parts[2], parts[3]).ok

DateTicks(event) ==
    LET parts == Split(GetText(event, "date"), "/")
    IN  ParseParts(parts[1], parts[2], parts[3]).ticks

\* C6: the sort orders records ascending by parsed date, places every
\* record whose date is empty or unparsable after all records with a
\* parsable date, and keeps the undated records in their original order.
C6_UndatedAfterAllDated ==
    op = "sort"
        => /\ Len(result) = Len(args.all_events)
           /\ Range(result) = Range(args.all_events)
           /\ \A i, j \in 1..Len(result) :
                  i < j =>
                      /\ (Parsable(result[i]) /\ Parsable(result[j]))
                             => DateTicks(result[i]) <= DateTicks(result[j])
                      /\ ~(~Parsable(result[i]) /\ Parsable(result[j]))
                      /\ (~Parsable(result[i]) /\ ~Parsable(result[j]))
                             => result[i].n < result[j].n

-----------------------------------------------------------------------------
(* The overlay of the detail result on a listing entry (scrape_events)      *)

\* the fields whose values are texts (sequences of characters)
TextKeys == {"date"}

\* `if value:` for a field value: it is not the empty string
Truthy(key, value) == IF key \in TextKeys THEN value # <<>> ELSE value # ""

\* the overlay without the `if value:` test
Overlay_NoTruthTest(event, popup_details) ==
    [key \in DOMAIN event \cup DOMAIN popup_details |->
        IF key \in DOMAIN popup_details THEN popup_details[key] ELSE event[key]]

\* for key, value in popup_details.items(): if value: event[key] = value
Overlay(event, popup_details) ==
    LET set == {key \in DOMAIN popup_details : Truthy(key, popup_details[key])}
    IN  [key \in DOMAIN event \cup set |->
            IF key \in set THEN popup_details[key] ELSE event[key]]

(* SpecOverlay: the overlay on listing entries and detail results           *)

Date1 == <<"1", "2", "/", "0", "6", "/", "2", "0", "2", "5">>
Date2 == <<"1", "3", "/", "0", "7", "/", "2", "0", "2", "5">>

OverlayEvents ==
    {[title |-> t, date |-> dt, price |-> pr] :
        t \in {"Concert", "x"}, dt \in {<<>>, Date1}, pr \in {"", "5 EUR"}}

Restrict(f, keys) == [k \in keys |-> f[k]]

\* a detail result: each field absent, empty or set
OverlayDetails ==
    {Restrict([title |-> t, date |-> dt, price |-> pr, organizer |-> o], keys) :
        t \in {"", "T2"}, dt \in {<<>>, Date2}, pr \in {"", "Gratuit"},
        o \in {"", "org"},
        keys \in SUBSET {"title", "date", "price", "organizer"}}

InitOverlay ==
    /\ op = "none"
    /\ args \in {[event |-> e, popup_details |-> m] :
                    e \in OverlayEvents, m \in OverlayDetails}
    /\ result = <<>>
    /\ RunIdle

CallOverlay ==
    /\ op = "none"
    /\ op' = "overlay"
    /\ result' = Overlay(args.event, args.popup_details)
    /\ UNCHANGED <<args, pc, run>>

NextOverlay == CallOverlay

SpecOverlay == InitOverlay /\ [][NextOverlay]_vars

DetailSet(key) ==
    /\ key \in DOMAIN args.popup_details
    /\ Truthy(key, args.popup_details[key])

\* C8: every field present and non-empty in the detail result takes the
\* detail value; every other field of the listing entry keeps its listing
\* value, so an empty detail value never overwrites a listing value.
C8_OverlaySkipsEmpty ==
    op = "overlay"
        => /\ \A key \in DOMAIN args.popup_details :
                  DetailSet(key)
                      => (key \in DOMAIN result
                            /\ result[key] = args.popup_details[key])
           /\ \A key \in DOMAIN args.event :
                  ~DetailSet(key)
                      => (key \in DOMAIN result /\ result[key] = args.event[key])

\* an empty detail title met a non-empty listing title, and the detail date
\* replaced the listing date
C8_Witness ==
    /\ op = "overlay"
    /\ "title" \in DOMAIN args.popup_details
    /\ args.popup_details["title"] = ""
    /\ args.event["title"] = "Concert"
    /\ result["title"] = "Concert"
    /\ "date" \in DOMAIN args.popup_details
    /\ args.event["date"] = <<>>
    /\ result["date"] = Date2

-----------------------------------------------------------------------------
(* _get_popup_details: the date and time scan                               *)
(*                                                                          *)
(* A document is, per selector of the scan, the list of the elements the    *)
(* selector finds; an element is its text, or Stale when reading it raises. *)

Stale == <<"stale">>

\* text.strip()
Strip(text) == StripRight(StripLeft(text))

\* s[i] exists and is one of chars
CharAt(s, i, chars) == i \in 1..Len(s) /\ s[i] \in chars

\* how many characters a greedy \d{1,2} takes at i (0: no match)
OneOrTwoDigits(s, i) ==
    IF CharAt(s, i, Digits)
    THEN (IF CharAt(s, i + 1, Digits) THEN 2 ELSE 1)
    ELSE 0

\* the length of the match of \d{1,2}[/\-]\d{1,2}[/\-]\d{4} starting at
\* i, or 0
DateMatchLen(s, i) ==
    LET a == OneOrTwoDigits(s, i)
        b == OneOrTwoDigits(s, i + a + 1)
        k == i + a + 1 + b
    IN  IF /\ a > 0
           /\ CharAt(s, i + a, {"/", "-"})
           /\ b > 0
           /\ CharAt(s, k, {"/", "-"})
           /\ \A d \in 1..4 : CharAt(s, k + d, Digits)
        THEN k + 4 - i + 1
        ELSE 0

\* the length of the match of \d{1,2}[h:]\d{2} starting at i, or 0
TimeMatchLen(s, i) ==
    LET a == OneOrTwoDigits(s, i)
    IN  IF /\ a > 0
           /\ CharAt(s, i + a, {"h", ":"})
           /\ \A d \in 1..2 : CharAt(s, i + a + d, Digits)
        THEN a + 3
        ELSE 0

\* re.search(pattern, s).group(1): the leftmost match, <<>> when none;
\* match_len[i] is the length of the match starting at i, or 0
Search(s, match_len) ==
    LET starts == {i \in 1..Len(s) : match_len[i] > 0}
    IN  IF starts = {} THEN <<>>
        ELSE LET i == CHOOSE x \in starts : \A y \in starts : x <= y
             IN  SubSeq(s, i, i + match_len[i] - 1)

SearchDate(s) == Search(s, [i \in 1..Len(s) |-> DateMatchLen(s, i)])
SearchTime(s) == Search(s, [i \in 1..Len(s) |-> TimeMatchLen(s, i)])

\* str.replace(old, new) for one-character old and new
Replace(s, old, new) == [i \in 1..Len(s) |-> IF s[i] = old THEN new ELSE s[i]]

\* the loop body on one element text: details['date'] and details['time']
\* are set from the matches found; <<>> is a key not set
DateTimeOfText(text, details) ==
    LET date_match == SearchDate(text)
        time_match == SearchTime(text)
    IN  [date |-> IF date_match # <<>> THEN Replace(date_match, "-", "/")
                  ELSE details.date,
         time |-> IF time_match # <<>> THEN Replace(time_match, "h", ":")
                  ELSE details.time]

\* details.get('date') or details.get('time')
DateOrTime(details) == details.date # <<>> \/ details.time # <<>>

\* for elem in date_elements: ... break once a date or a time is set; a
\* stale element raises, and `except: continue` ends this selector's scan
RECURSIVE ScanDateElements(_, _)
ScanDateElements(date_elements, details) ==
    IF date_elements = <<>> \/ Head(date_elements) = Stale THEN details
    ELSE LET found == DateTimeOfText(Strip(Head(date_elements)), details)
         IN  IF DateOrTime(found) THEN found
             ELSE ScanDateElements(Tail(date_elements), found)

\* for selector in date_selectors: scan its elements; break once a date or
\* a time is set
RECURSIVE ScanDateSelectors(_, _)
ScanDateSelectors(document, details) ==
    IF document = <<>> THEN details
    ELSE LET found == ScanDateElements(Head(document), details)
         IN  IF DateOrTime(found) THEN found
             ELSE ScanDateSelectors(Tail(document), found)

\* the date and time _get_popup_details extracts from a document
ExtractDateTime(document) ==
    ScanDateSelectors(document, [date |-> <<>>, time |-> <<>>])

(* SpecDateTime: the scan on documents whose first two selectors find up   *)
(* to MaxScan elements each                                                 *)

MaxScan == 2

DateElements ==
    {<<"1", "2", "-", "0", "5", "-", "2", "0", "2", "6">>,
     <<"2", "0", "h", "3", "0">>,
     <<" ", "l", "e", " ", "1", "/", "2", "/", "2", "0", "2", "6", " ",
       "a", " ", "9", ":", "0", "5", " ">>,
     <<"C", "o", "n", "c", "e", "r", "t">>,
     Stale}

DateDocuments ==
    {<<first, second>> : first, second \in SeqsUpTo(DateElements, MaxScan)}

InitDateTime ==
    /\ op = "none"
    /\ args \in {[document |-> doc] : doc \in DateDocuments}
    /\ result = <<>>
    /\ RunIdle

CallExtractDateTime ==
    /\ op = "none"
    /\ op' = "date_time"
    /\ result' = ExtractDateTime(args.document)
    /\ UNCHANGED <<args, pc, run>>

NextDateTime == CallExtractDateTime

SpecDateTime == InitDateTime /\ [][NextDateTime]_vars

\* the elements of one selector up to its first stale one
RECURSIVE Readable(_)
Readable(elements) ==
    IF elements = <<>> \/ Head(elements) = Stale THEN <<>>
    ELSE <<Head(elements)>> \o Readable(Tail(elements))

\* the candidate elements of a document in scan order
RECURSIVE Candidates(_)
Candidates(document) ==
    IF document = <<>> THEN <<>>
    ELSE Readable(Head(document)) \o Candidates(Tail(document))

\* the first non-empty token of a list of tokens, <<>> when there is none
FirstToken(tokens) ==
    LET hits == {k \in 1..Len(tokens) : tokens[k] # <<>>}
    IN  IF hits = {} THEN <<>>
        ELSE tokens[CHOOSE x \in hits : \A y \in hits : x <= y]

\* C16: date and time are extracted independently, first match winning per
\* field: when some candidate element holds a DD[/-]MM[/-]YYYY token the
\* result's date is the first such token with - turned into /, and when
\* some candidate element holds an HH[h:]MM token the result's time is
\* the first such token with h turned into :, whether or not the other
\* field was found in an earlier element.
C16_DateAndTimeIndependent ==
    op = "date_time"
        => LET texts == Candidates(args.document)
               first_date ==
                   FirstToken([k \in 1..Len(texts) |-> SearchDate(texts[k])])
               first_time ==
                   FirstToken([k \in 1..Len(texts) |-> SearchTime(texts[k])])
           IN  /\ first_date # <<>>
                      => result.date = Replace(first_date, "-", "/")
               /\ first_time # <<>>
                      => result.time = Replace(first_time, "h", ":")

-----------------------------------------------------------------------------
(* _get_popup_details: the price scan                                       *)

\* ['gratuit', 'free', '€', 'euro']
price_words ==
    {<<"g", "r", "a", "t", "u", "i", "t">>, <<"f", "r", "e", "e">>, <<"€">>,
     <<"e", "u", "r", "o">>}

\* any(word in text.lower() for word in price_words)
HasPriceWord(text) == \E word \in price_words : HasSub(LowerText(text), word)

\* for elem in price_elements: the first text holding a price word is the
\* price; a stale element raises, and `except: continue` ends this
\* selector's scan
RECURSIVE ScanPriceElements(_)
ScanPriceElements(price_elements) ==
    IF price_elements = <<>> \/ Head(price_elements) = Stale THEN <<>>
    ELSE LET text == Strip(Head(price_elements))
         IN  IF HasPriceWord(text) THEN text
             ELSE ScanPriceElements(Tail(price_elements))

\* for selector in price_selectors: scan its elements; break once
\* details.get('price') is set.  <<>> is a price not set.
RECURSIVE ExtractPrice(_)
ExtractPrice(document) ==
    IF document = <<>> THEN <<>>
    ELSE LET price == ScanPriceElements(Head(document))
         IN  IF price # <<>> THEN price ELSE ExtractPrice(Tail(document))

(* SpecPrice: the scan on documents whose first two selectors find up to   *)
(* MaxScan elements each                                                    *)

PriceElements ==
    {<<"G", "r", "a", "t", "u", "i", "t">>,
     <<"1", "0", " ", "€">>,
     <<" ", "5", " ", "e", "u", "r", "o", "s">>,
     <<"S", "u", "r", " ", "p", "l", "a", "c", "e">>,
     Stale}

PriceDocuments ==
    {<<first, second>> : first, second \in SeqsUpTo(PriceElements, MaxScan)}

InitPrice ==
    /\ op = "none"
    /\ args \in {[document |-> doc] : doc \in PriceDocuments}
    /\ result = <<>>
    /\ RunIdle

CallExtractPrice ==
    /\ op = "none"
    /\ op' = "price"
    /\ result' = [price |-> ExtractPrice(args.document)]
    /\ UNCHANGED <<args, pc, run>>

NextPrice == CallExtractPrice

SpecPrice == InitPrice /\ [][NextPrice]_vars

\* the text carries the free-admission token
HasFreeWord(text) ==
    \E word \in {<<"g", "r", "a", "t", "u", "i", "t">>, <<"f", "r", "e", "e">>} :
        HasSub(LowerText(text), word)

\* the text carries an amount with a currency
HasAmountWord(text) ==
    \E word \in {<<"€">>, <<"e", "u", "r", "o">>} :
        HasSub(LowerText(text), word)

\* C17: the free-admission rule has priority: whenever some candidate
\* price element carries the free-admission token the extracted price is
\* the first element carrying it, even when an element with an amount and
\* a currency comes earlier in scan order; the first amount is the price
\* only when no candidate carries the free-admission token.
C17_FreeAdmissionHasPriority ==
    op = "price"
        => LET texts == Candidates(args.document)
               free == {k \in 1..Len(texts) : HasFreeWord(texts[k])}
               amount == {k \in 1..Len(texts) : HasAmountWord(texts[k])}
               First(hits) == CHOOSE x \in hits : \A y \in hits : x <= y
           IN  /\ free # {} => result.price = Strip(texts[First(free)])
               /\ (free = {} /\ amount # {})
                      => result.price = Strip(texts[First(amount)])

-----------------------------------------------------------------------------
(* _get_popup_details: the six address strategies                           *)
(*                                                                          *)
(* A document is, per strategy, the list of the candidate texts the         *)
(* strategy meets in scan order: the elements its XPath or selectors find,  *)
(* the matches of its patterns in the page source (strategy 4), the lines   *)
(* of the body text (strategy 6).  Stale is an element whose read raises.   *)

\* the words of the XPath of strategy 1 (case-sensitive)
xpath_words ==
    {<<"R", "u", "e">>, <<"A", "v", "e", "n", "u", "e">>,
     <<"B", "o", "u", "l", "e", "v", "a", "r", "d">>,
     <<"P", "l", "a", "c", "e">>, <<"R", "o", "u", "t", "e">>}

\* the street words of strategies 2 and 6, of strategy 3, of strategy 1
street_words ==
    {<<"r", "u", "e">>, <<"a", "v", "e", "n", "u", "e">>,
     <<"b", "o", "u", "l", "e", "v", "a", "r", "d">>,
     <<"p", "l", "a", "c", "e">>, <<"r", "o", "u", "t", "e">>}
street_words_quai == street_words \cup {<<"q", "u", "a", "i">>}
street_words_impasse ==
    street_words_quai \cup {<<"i", "m", "p", "a", "s", "s", "e">>}

skip_words ==
    {<<"e", "m", "a", "i", "l">>, <<"p", "h", "o", "n", "e">>,
     <<"t", "e", "l">>, <<"f", "a", "x">>, <<"w", "w", "w">>,
     <<"h", "t", "t", "p">>}

\* [a-zA-Zéèêëàâäôöûüç\s-]
NameChars ==
    Range(UpperLetters) \cup Range(LowerLetters)
        \cup {"è", "ê", "ë", "à", "â", "ä", "ô", "ö", "û", "ü", "ç", " ", "-"}

\* the en dash of `'\u2013' in text`, written ~ in the texts of the model
EnDash == "~"

HasAny(text, some_words) == \E word \in some_words : HasSub(text, word)

\* re.search(r'\d{5}', text) finds a match
HasFiveDigits(text) ==
    \E i \in 1..Len(text) : \A j \in 0..4 : CharAt(text, i + j, Digits)

\* re.search(r'(\d+\s+[a-zA-Z...\s-]+(?:...)?)', text) finds a match: a
\* digit, a blank and one more character of the class
HasNumberThenName(text) ==
    \E i \in 1..Len(text) :
        /\ CharAt(text, i, Digits)
        /\ CharAt(text, i + 1, {" "})
        /\ CharAt(text, i + 2, NameChars)

\* re.sub(r'\s+', ' ', text); a match of the patterns holds no HTML entity
\* (no pattern admits a semicolon), so the entity substitution finds none
RECURSIVE CollapseBlanks(_)
CollapseBlanks(text) ==
    IF Len(text) < 2 THEN text
    ELSE IF text[1] = " " /\ text[2] = " " THEN CollapseBlanks(Tail(text))
    ELSE <<text[1]>> \o CollapseBlanks(Tail(text))

\* the text a strategy tests: elem.text.strip(), line.strip(), or the
\* cleaned match
CandidateText(strategy, candidate) ==
    IF strategy = 4 THEN CollapseBlanks(Strip(candidate)) ELSE Strip(candidate)

\* the acceptance test of each strategy on a candidate text
Accepts(strategy, text) ==
    CASE strategy = 1 ->
           /\ Len(text) > 15
           /\ (HasSub(text, <<" ", "-", " ">>) \/ HasSub(text, <<EnDash>>))
           /\ HasFiveDigits(text)
           /\ HasAny(LowerText(text), street_words_impasse)
      [] strategy = 2 ->
           /\ Len(text) > 10
           /\ HasFiveDigits(text)
           /\ HasAny(LowerText(text), street_words)
      [] strategy = 3 ->
           /\ Len(text) > 15
           /\ HasNumberThenName(text)
           /\ HasAny(LowerText(text), street_words_quai)
      [] strategy = 4 -> Len(text) > 15
      [] strategy = 5 -> Len(text) > 10
      [] strategy = 6 ->
           /\ Len(text) > 15
           /\ HasFiveDigits(text)
           /\ HasAny(LowerText(text), street_words)
           /\ ~HasAny(LowerText(text), skip_words)

\* the loop of one strategy: the first candidate text it accepts, <<>> when
\* it accepts none; a stale element ends the scan
RECURSIVE FirstAccepted(_, _)
FirstAccepted(strategy, candidates) ==
    IF candidates = <<>> \/ Head(candidates) = Stale THEN <<>>
    ELSE LET text == CandidateText(strategy, Head(candidates))
         IN  IF Accepts(strategy, text) THEN text
             ELSE FirstAccepted(strategy, Tail(candidates))

\* strategy, then `if not address_found:` the next one
RECURSIVE AddressFrom(_, _)
AddressFrom(strategy, document) ==
    IF strategy > Len(document) THEN [full_address |-> <<>>, strategy |-> 0]
    ELSE LET text == FirstAccepted(strategy, document[strategy])
         IN  IF text # <<>>
             THEN [full_address |-> text, strategy |-> strategy]
             ELSE AddressFrom(strategy + 1, document)

\* details['full_address'] as the six strategies set it (<<>>: not set),
\* and the strategy that set it
ExtractAddress(document) == AddressFrom(1, document)

(* SpecPopupAddress: the strategies on documents in which at most two      *)
(* strategies meet candidates                                               *)

VenueAddress ==
    <<"C", "h", "e", "z", " ", "L", "i", "l", "i", " ", "-", " ", "2", " ",
      "R", "u", "e", " ", "d", "e", "s", " ", "E", "t", "o", "u", "p", "i",
      "e", "r", "e", "s", " ", "-", " ", "7", "6", "6", "0", "0", " ", "L",
      "E", " ", "H", "A", "V", "R", "E">>

AddressTexts ==
    {VenueAddress,
     VenueAddress \o Dots(MaxPad - Len(VenueAddress)),
     <<"S", "a", "l", "l", "e", " ", "d", "e", "s", " ", "f", "e", "t",
       "e", "s">>,
     <<"1", "2", " ", "Q", "u", "a", "i", " ", "d", "e", " ", "S", "o",
       "u", "t", "h", "a", "m", "p", "t", "o", "n">>,
     <<"B", "a", "r", " ", "-", " ", "R", "u", "e", " ", "X", " ", "-",
       " ", "t", "e", "l", " ", "0", "2", "3", "5", "1", "2", "3", "4",
       "5", "6">>,
     <<"2", " ", "r", "u", "e", " ", "X", ",", " ", "7", "6", "6", "0",
       "0", " ", "L", "E", " ", "H", "A", "V", "R", "E">>}

\* what a strategy can meet: strategy 1 only elements holding a word of its
\* XPath, strategy 4 only matches of its patterns
CandidateTexts(strategy) ==
    CASE strategy = 1 -> {t \in AddressTexts : HasAny(t, xpath_words)}
      [] strategy = 4 ->
           {VenueAddress,
            <<"2", " ", "r", "u", "e", " ", "X", ",", " ", " ", "7", "6",
              "6", "0", "0", " ", "L", "E", " ", "H", "A", "V", "R", "E">>}
      [] OTHER -> AddressTexts

CandidateLists(strategy) ==
    {<<>>, <<Stale, VenueAddress>>}
    \cup {<<t>> : t \in CandidateTexts(strategy)}
    \cup {<<s, t>> : s \in {<<"S", "a", "l", "l", "e", " ", "d", "e", "s", " ", "f", "e", "t",
          "e", "s">>}, t \in CandidateTexts(strategy)}

Strategies == 1..6

AddressDocuments ==
    {[k \in Strategies |-> IF k = i THEN ci ELSE IF k = j THEN cj ELSE <<>>] :
        <<i, ci, j, cj>> \in
            UNION {{<<a, ca, b, cb>> : ca \in CandidateLists(a),
                                      cb \in CandidateLists(b)} :
                      <<a, b>> \in {ab \in Strategies \X Strategies :
                                      ab[1] < ab[2]}}}

InitPopupAddress ==
    /\ op = "none"
    /\ args \in {[document |-> doc] : doc \in AddressDocuments}
    /\ result = <<>>
    /\ RunIdle

CallExtractAddress ==
    /\ op = "none"
    /\ op' = "address"
    /\ result' = ExtractAddress(args.document)
    /\ UNCHANGED <<args, pc, run>>

NextPopupAddress == CallExtractAddress

SpecPopupAddress == InitPopupAddress /\ [][NextPopupAddress]_vars

\* C15: every full_address the detail extraction produces satisfies
\* _is_valid_address, whichever of the six strategies yields it: a
\* candidate the predicate rejects is never stored as full_address.
C15_FullAddressIsValid ==
    (op = "address" /\ result.full_address # <<>>)
        => IsValidAddress(result.full_address)

-----------------------------------------------------------------------------
(* A run: main() or a direct call of scrape_events()                        *)
(*                                                                          *)
(* run.store is the record store file; run.driver is self.driver;           *)
(* the other fields are the locals of scrape_events and main.  The clock    *)
(* is read as run.now throughout one run.                                   *)

MaxEventsMain == 1
MaxEventsDefault == 40

PastDate == <<"0", "1", "/", "0", "1", "/", "2", "0", "2", "0">>
SoonDate == <<"2", "0", "/", "0", "2", "/", "2", "0", "2", "6">>
NearDate == <<"1", "0", "/", "0", "1", "/", "2", "0", "2", "6">>
FarDate == <<"0", "1", "/", "0", "1", "/", "2", "0", "9", "9">>

\* the records a store may hold
StoredBase ==
    {[id |-> "E0", title |-> "old", date |-> PastDate, src |-> "persisted"],
     [id |-> "A1", title |-> "x", date |-> SoonDate, src |-> "persisted"],
     [id |-> "", title |-> "y", src |-> "persisted"],
     [id |-> "Z9", title |-> "", src |-> "persisted"]}

\* the record store file: absent, unreadable, or a list of records
Stores ==
    {[exists |-> FALSE, readable |-> FALSE, events |-> <<>>],
     [exists |-> TRUE, readable |-> FALSE, events |-> <<>>]}
    \cup {[exists |-> TRUE, readable |-> TRUE, events |-> l] :
            l \in SeqsUpTo(StoredBase, MaxStored)}

\* the entries the listing page may yield: the href holds /fiche/ and the
\* title is non-empty (`if title:`), the id may be empty, fields empty
ListingBase ==
    {[id |-> "A1", title |-> "Dup", detail_url |-> "u1", date |-> <<>>,
      price |-> "", src |-> "listing"],
     [id |-> "B2", title |-> "X", detail_url |-> "u2", date |-> <<>>,
      price |-> "", src |-> "listing"],
     [id |-> "", title |-> "Y", detail_url |-> "u4", date |-> <<>>,
      price |-> "", src |-> "listing"]}

Listings == SeqsUpTo(ListingBase, MaxListing)

\* what _get_popup_details may return: {} (nothing found), or the fields
\* it found
DetailResults ==
    {<<>>, [date |-> NearDate], [date |-> FarDate, price |-> "Gratuit"]}

\* the outcome of one call of _get_popup_details: a fault anywhere in its
\* try block is caught and {} is returned
DetailOutcomes ==
    {[fault |-> TRUE, details |-> <<>>]}
    \cup {[fault |-> FALSE, details |-> dt] : dt \in DetailResults}

Min(a, b) == IF a <= b THEN a ELSE b

\* the clock reading of a run: the last tick of 15/06/2025 (the stored and
\* extracted dates are years or months away from it)
RunNows == {Ticks(Today, TicksPerDay - 1)}

\* the state at the entry of a run: main() and scrape_events() have yet
\* to execute their first statement; n numbers the run
NewRun(c, st, t, n) ==
    [caller |-> c,
     max_events |-> IF c = "main" THEN MaxEventsMain ELSE MaxEventsDefault,
     store |-> st, now |-> t, n |-> n, driver |-> "none",
     acquired |-> 0, quits |-> 0, listing |-> "none",
     found |-> <<>>, faults |-> <<>>, loaded |-> <<>>,
     existing_events |-> <<>>, initial_events |-> <<>>,
     complete_new_events |-> <<>>, i |-> 0,
     all_events |-> <<>>, visited |-> <<>>,
     returned |-> "no", raised |-> FALSE, events |-> <<>>,
     save |-> "none", exit |-> -1]

InitRun ==
    /\ FnIdle
    /\ pc = "start"
    /\ run \in {NewRun(c, st, t, 1) :
                    c \in {"main", "direct"}, st \in Stores, t \in RunNows}

\* load_existing_events(): the filtered records of a readable store, else []
LoadExistingEvents ==
    /\ pc = "start"
    /\ pc' = "setup"
    /\ IF run.store.exists /\ run.store.readable
       THEN run' = [run EXCEPT
                      !.loaded = run.store.events,
                      !.existing_events =
                          FilterExpired(run.store.events, run.now)]
       ELSE run' = run
    /\ UNCHANGED <<op, args, result>>

\* _get_event_cards_with_selenium, first lines: `if not self.driver:
\* self._setup_driver()`, outside the try.  webdriver.Chrome() may raise
\* (self.driver stays None), and implicitly_wait may raise once self.driver
\* is assigned; either fault leaves scrape_events through its finally.
SetupDriver ==
    /\ pc = "setup"
    /\ IF run.driver # "none"
       THEN pc' = "listing" /\ run' = run
       ELSE \/ /\ pc' = "listing"
               /\ run' = [run EXCEPT !.driver = "session",
                                     !.acquired = @ + 1]
            \/ /\ pc' = "finally"
               /\ run' = [run EXCEPT !.raised = TRUE,
                                     !.listing = "session_fault"]
            \/ /\ pc' = "finally"
               /\ run' = [run EXCEPT !.driver = "session",
                                     !.acquired = @ + 1,
                                     !.raised = TRUE,
                                     !.listing = "session_fault"]
    /\ UNCHANGED <<op, args, result>>

\* `if not initial_events: return existing_events`
ReturnExisting(r, why) ==
    [r EXCEPT !.listing = why, !.returned = "early",
              !.events = r.existing_events]

\* _get_event_cards_with_selenium, the try block: a fault anywhere in it
\* is caught and [] returned; else the entries found, possibly none
FetchListing ==
    /\ pc = "listing"
    /\ \/ /\ pc' = "finally"
          /\ run' = ReturnExisting(run, "fault")
       \/ \E found \in Listings :
             IF found = <<>>
             THEN /\ pc' = "finally"
                  /\ run' = ReturnExisting(run, "empty")
             ELSE /\ pc' = "detail"
                  /\ run' = [run EXCEPT !.listing = "found",
                                        !.found = found,
                                        !.initial_events = found, !.i = 1]
    /\ UNCHANGED <<op, args, result>>

\* the loop body with a failed detail fetch dropping the entry
ProcessOne_DropOnFault(complete_new_events, event, outcome) ==
    IF outcome.fault THEN complete_new_events
    ELSE Append(complete_new_events, Overlay(event, outcome.details))

\* the loop body for an entry with a detail_url: overlay what
\* _get_popup_details returned ({} after a fault) and append the entry
ProcessOne(complete_new_events, event, outcome) ==
    Append(complete_new_events, Overlay(event, outcome.details))

\* one iteration of `for i, event in enumerate(initial_events[:max_events])`
ProcessEvent ==
    /\ pc = "detail"
    /\ run.i <= Min(Len(run.initial_events), run.max_events)
    /\ LET event == run.initial_events[run.i]
       IN  IF event.detail_url # ""
           THEN \E outcome \in DetailOutcomes :
                   LET complete == ProcessOne(run.complete_new_events,
                                              event, outcome)
                   IN  run' = [run EXCEPT
                                 !.initial_events[run.i] =
                                     Overlay(event, outcome.details),
                                 !.complete_new_events = complete,
                                 !.visited = Append(@, event.detail_url),
                                 !.faults = Append(@, outcome.fault),
                                 !.i = @ + 1]
           ELSE run' = [run EXCEPT
                          !.complete_new_events = Append(@, event),
                          !.faults = Append(@, FALSE),
                          !.i = @ + 1]
    /\ UNCHANGED <<op, args, result, pc>>

\* all_events = self.merge_events(existing_events, complete_new_events)
MergeStep ==
    /\ pc = "detail"
    /\ run.i > Min(Len(run.initial_events), run.max_events)
    /\ pc' = "sort"
    /\ LET m == MergeEvents(run.existing_events, run.complete_new_events)
       IN  run' = [run EXCEPT !.all_events = m.merged_events,
                              !.existing_events = m.existing_events]
    /\ UNCHANGED <<op, args, result>>

\* all_events.sort(key=get_event_date); return all_events
SortStep ==
    /\ pc = "sort"
    /\ pc' = "finally"
    /\ LET sorted == SortByDate(run.all_events, run.now)
       IN  run' = [run EXCEPT !.all_events = sorted, !.events = sorted,
                              !.returned = "full"]
    /\ UNCHANGED <<op, args, result>>

\* _cleanup_driver with the quit left out
CleanupDriver_NoQuit(r) == r

\* _cleanup_driver(): if self.driver: self.driver.quit(); self.driver = None
CleanupDriver(r) ==
    IF r.driver # "none"
    THEN [r EXCEPT !.driver = "none", !.quits = @ + 1]
    ELSE r

\* finally: self._cleanup_driver(); then back to the caller
Finally ==
    /\ pc = "finally"
    /\ pc' = IF run.caller = "main"
             THEN (IF run.raised THEN "main_except" ELSE "main_events")
             ELSE "done"
    /\ run' = CleanupDriver(run)
    /\ UNCHANGED <<op, args, result>>

\* main: `if events:` save_events_json(events), return True; else return
\* False.  A failed write raises, main's except returns False.  The store
\* after a failed write: untouched (open() failed), cut short (json.dump
\* failed), or written (the metadata file failed).
MainEvents ==
    /\ pc = "main_events"
    /\ pc' = "exited"
    /\ IF run.events # <<>>
       THEN \/ run' = [run EXCEPT
                         !.store = [exists |-> TRUE, readable |-> TRUE,
                                    events |-> run.events],
                         !.save = "ok", !.exit = 0]
            \/ \E after \in {run.store,
                             [exists |-> TRUE, readable |-> FALSE,
                              events |-> <<>>],
                             [exists |-> TRUE, readable |-> TRUE,
                              events |-> run.events]} :
                   run' = [run EXCEPT !.store = after, !.save = "failed",
                                      !.exit = 1]
       ELSE run' = [run EXCEPT !.exit = 1]
    /\ UNCHANGED <<op, args, result>>

\* main: `except Exception: return False`, then sys.exit(1)
MainExcept ==
    /\ pc = "main_except"
    /\ pc' = "exited"
    /\ run' = [run EXCEPT !.exit = 1]
    /\ UNCHANGED <<op, args, result>>

Next ==
    \/ LoadExistingEvents
    \/ SetupDriver
    \/ FetchListing
    \/ ProcessEvent
    \/ MergeStep
    \/ SortStep
    \/ Finally
    \/ MainEvents
    \/ MainExcept

Spec == InitRun /\ [][Next]_vars

(* SpecRuns: the program run up to MaxRuns times in a row, first on an     *)
(* empty store, each run reading the store the runs before it left         *)

MaxRuns == 2

EmptyStore == [exists |-> FALSE, readable |-> FALSE, events |-> <<>>]

InitRuns ==
    /\ FnIdle
    /\ pc = "start"
    /\ run \in {NewRun("main", EmptyStore, t, 1) : t \in RunNows}

\* the process has exited; the program is started again on the same store
NextRun ==
    /\ pc = "exited"
    /\ run.n < MaxRuns
    /\ pc' = "start"
    /\ \E t \in RunNows : run' = NewRun("main", run.store, t, run.n + 1)
    /\ UNCHANGED <<op, args, result>>

NextRuns == Next \/ NextRun

SpecRuns == InitRuns /\ [][NextRuns]_vars

\* scrape_events has merged, sorted and returned
RunSorted == pc \in {"finally", "done", "main_events", "exited"}
                /\ run.returned = "full"

\* how many records of seq have the id, and how many equal the record e
CountId(seq, id) == Cardinality({k \in 1..Len(seq) : GetStr(seq[k], "id") = id})
CountEq(seq, e) == Cardinality({k \in 1..Len(seq) : seq[k] = e})

\* the fresh record at index j is new and dated in the future: it shares
\* no key with a kept persisted record nor with another fresh record
NewFutureRecord(j) ==
    LET new == run.complete_new_events[j]
    IN  /\ Parsable(new)
        /\ DateTicks(new) > run.now
        /\ \A k \in 1..Len(run.existing_events) :
               ~ShareKey(run.existing_events[k], new)
        /\ \A k \in 1..Len(run.complete_new_events) :
               k # j => ~ShareKey(run.complete_new_events[k], new)

\* the scenario of the end-to-end property: the store held an expired
\* record and exactly one record with id A1, which is current; the fresh
\* extraction yielded a record with id A1
Scenario ==
    /\ \E k \in 1..Len(run.loaded) : IsEventExpired(run.loaded[k], run.now)
    /\ CountId(run.loaded, "A1") = 1
    /\ \A k \in 1..Len(run.loaded) :
           GetStr(run.loaded[k], "id") = "A1"
               => ~IsEventExpired(run.loaded[k], run.now)
    /\ \E k \in 1..Len(run.complete_new_events) :
           GetStr(run.complete_new_events[k], "id") = "A1"

\* C9: when the store holds an expired record and a current record with id
\* A1, and the fresh extraction yields a duplicate of id A1 and a new record
\* with a future date, the output holds no expired persisted record, holds
\* the current persisted record exactly once (the duplicate is not added),
\* and holds the new record once, the dated records in ascending order.
C9_EndToEnd ==
    (RunSorted /\ Scenario)
        => \A j \in 1..Len(run.complete_new_events) :
               NewFutureRecord(j) =>
                   /\ \A k \in 1..Len(run.loaded) :
                          IsEventExpired(run.loaded[k], run.now)
                              => run.loaded[k] \notin Range(run.events)
                   /\ CountId(run.events, "A1") = 1
                   /\ \A k \in 1..Len(run.events) :
                          GetStr(run.events[k], "id") = "A1"
                              => run.events[k] \in Range(run.loaded)
                   /\ CountEq(run.events, run.complete_new_events[j]) = 1
                   /\ \A a, b \in 1..Len(run.events) :
                          (a < b /\ Parsable(run.events[a])
                                 /\ Parsable(run.events[b]))
                              => DateTicks(run.events[a])
                                     <= DateTicks(run.events[b])

\* the scenario happened, and the new record sorts before the persisted one
C9_Witness ==
    /\ RunSorted
    /\ Scenario
    /\ \E j \in 1..Len(run.complete_new_events) : NewFutureRecord(j)
    /\ Len(run.events) = 2
    /\ run.events[1].src = "listing"
    /\ run.events[2].src = "persisted"

\* C10: the process exits 0 when the run produced at least one record and
\* 1 otherwise; a failed write of the store makes it exit non-zero, and
\* nothing else makes a run that has records exit non-zero.
C10_OnlyWriteFaultExitsNonZero ==
    pc = "exited"
        => /\ ~run.raised
                 => (run.exit = 0 <=> (run.events # <<>> /\ run.save # "failed"))
           /\ run.save = "failed" => run.exit # 0
           /\ (run.exit # 0 /\ run.existing_events # <<>>)
                 => run.save = "failed"

\* scrape_events has ended: its finally has run
ScrapeEnded == pc \in {"done", "main_events", "main_except", "exited"}

\* the listing fetch failed (acquiring the session, or in the try block) or
\* found no entries
ListingFailed == run.listing \in {"session_fault", "fault", "empty"}

\* C11: when the listing fetch fails or discovers no entries, a fault
\* raised while acquiring or using the rendering session included,
\* scrape_events does not raise and returns the expiration-filtered
\* persisted set unchanged in content and order, and no detail page is
\* visited.
C11_ListingFailureReturnsPersisted ==
    (ScrapeEnded /\ ListingFailed)
        => /\ ~run.raised
           /\ run.returned = "early"
           /\ run.events = FilterExpired(run.loaded, run.now)
           /\ run.visited = <<>>

\* the number of listing entries the loop processes
Processed == Min(Len(run.found), run.max_events)

\* the per-entry loop has finished: complete_new_events is what merge gets
LoopDone == run.listing = "found" /\ run.i > Processed

\* C12: a fault while fetching or extracting one entry's detail page never
\* drops the entry nor aborts the others: the loop appends one record per
\* listing entry, in listing order, each with the listing's id, title and
\* detail url, and equal to the listing entry when its detail fetch failed;
\* when the loop ends every one of the first max_events entries has been
\* visited and appended exactly once.
C12_DetailFaultKeepsEntry ==
    run.listing = "found"
        => /\ Len(run.complete_new_events) = run.i - 1
           /\ Len(run.visited) = run.i - 1
           /\ LoopDone => Len(run.complete_new_events) = Processed
           /\ \A k \in 1..Len(run.complete_new_events) :
                  /\ run.complete_new_events[k].id = run.found[k].id
                  /\ run.complete_new_events[k].title = run.found[k].title
                  /\ run.complete_new_events[k].detail_url
                         = run.found[k].detail_url
                  /\ run.visited[k] = run.found[k].detail_url
                  /\ run.faults[k]
                         => run.complete_new_events[k] = run.found[k]

\* the first entry's detail fetch failed, the second was still fetched and
\* got its date, and both were merged
C12_Witness ==
    /\ pc = "sort"
    /\ Processed = 2
    /\ run.faults = <<TRUE, FALSE>>
    /\ run.complete_new_events[1] = run.found[1]
    /\ run.complete_new_events[2].date = NearDate
    /\ run.complete_new_events[1] \in Range(run.all_events)
    /\ run.complete_new_events[2] \in Range(run.all_events)

\* C13: the rendering session is acquired at most once per run, and on
\* every exit path of scrape_events (normal return, early return,
\* exception) every acquired driver has been quit and self.driver is None.
C13_SessionAcquiredOnceAndReleased ==
    /\ run.acquired <= 1
    /\ ScrapeEnded => (run.driver = "none" /\ run.quits = run.acquired)

\* scrape_events left by an exception with a session open (implicitly_wait
\* raised), and the session was quit
C13_Witness ==
    /\ ScrapeEnded
    /\ run.raised
    /\ run.acquired = 1
    /\ run.quits = 1
    /\ run.driver = "none"

\* the listing entry matches a persisted record that survived the filter
MatchesPersisted(entry) ==
    \E k \in 1..Len(run.existing_events) :
        ShareKey(run.existing_events[k], entry)

\* C14: a detail page is fetched only for a genuinely new listing entry:
\* no detail url is visited for an entry whose id or lowercased title
\* matches a persisted record that survived the expiration filter.
C14_OnlyNewEntriesVisited ==
    \A k \in 1..Len(run.visited) : ~MatchesPersisted(run.found[k])

C19_StoreHasNoSharedKey ==
    \A a, b \in 1..Len(run.store.events) :
        a < b => ~ShareKey(run.store.events[a], run.store.events[b])

\* the second run met a listing entry that matches the record the first
\* run stored, and saved a store that still holds that record alone
C19_Witness ==
    /\ pc = "exited"
    /\ run.n = 2
    /\ run.save = "ok"
    /\ Len(run.loaded) = 1
    /\ Len(run.complete_new_events) = 1
    /\ ShareKey(run.loaded[1], run.complete_new_events[1])
    /\ run.store.events = run.loaded

====
